---- MODULE Spec2Model ----
(***************************************************************************)
(* A model of cargo2port's library (src/lib.rs): the resolver              *)
(* resolve_lockfile_packages, the formatter format_cargo_crates and the    *)
(* reader read_packages_from_lockfiles.                                    *)
(*                                                                         *)
(* Text is modelled as a sequence of byte codes (ASCII), so that byte      *)
(* order, lengths, padding and splitting are computed, not assumed.        *)
(* An Option<T> is a sequence of length 0 (None) or 1 (Some).              *)
(***************************************************************************)
EXTENDS Integers, Sequences, FiniteSets, TLC

VARIABLES files, idx, effects, error, lockfiles, packages, mode, output, pc

vars == <<files, idx, effects, error, lockfiles, packages, mode, output, pc>>

(***************************************************************************)
(* Bounds of the model.                                                    *)
(***************************************************************************)
\* total number of package records over all documents given to the resolver
MaxTotal == 3
\* number of packages given to the formatter
MaxFmt == 2
\* number of sources given to the reader
MaxFiles == 2

(***************************************************************************)
(* Byte codes of the characters the program names.                         *)
(***************************************************************************)
SPACE == 32
NEWLINE == 10
BACKSLASH == 92
DOT == 46
AT == 64
DASH == 45
ZERO == 48

\* "cargo.crates"
HEADER == <<99, 97, 114, 103, 111, 46, 99, 114, 97, 116, 101, 115>>
\* "crate:"
CRATE_PREFIX == <<99, 114, 97, 116, 101, 58>>

JUSTIFIED_BASE_WIDTH == 5
NORMAL_NAME_WIDTH == 28
NORMAL_VERSION_WIDTH == 8
INDENT_WIDTH == 4

(***************************************************************************)
(* Text helpers.                                                           *)
(***************************************************************************)
Max(a, b) == IF a > b THEN a ELSE b

Spaces(n) == [i \in 1..n |-> SPACE]

RECURSIVE Digits(_)
\* decimal rendering of a natural number (Display for u64)
Digits(n) == IF n < 10 THEN <<ZERO + n>> ELSE Digits(n \div 10) \o <<ZERO + (n % 10)>>

\* semver::Version as Display renders it (no pre-release, no build metadata)
VersionToString(v) ==
    Digits(v.major) \o <<DOT>> \o Digits(v.minor) \o <<DOT>> \o Digits(v.patch)

(***************************************************************************)
(* Orderings.  Each returns -1, 0 or 1.                                    *)
(***************************************************************************)
CmpNat(a, b) == IF a < b THEN -1 ELSE IF a > b THEN 1 ELSE 0

RECURSIVE CmpStr(_, _)
\* str/String Ord: byte-wise lexicographic, a proper prefix is smaller
CmpStr(s, t) ==
    IF s = <<>> THEN (IF t = <<>> THEN 0 ELSE -1)
    ELSE IF t = <<>> THEN 1
    ELSE IF Head(s) # Head(t) THEN CmpNat(Head(s), Head(t))
    ELSE CmpStr(Tail(s), Tail(t))

\* a plausible slip: versions compared as their text
CmpVersionAsText(v, w) == CmpStr(VersionToString(v), VersionToString(w))

\* semver::Version Ord: major, minor, patch compared as numbers
CmpVersion(v, w) ==
    IF v.major # w.major THEN CmpNat(v.major, w.major)
    ELSE IF v.minor # w.minor THEN CmpNat(v.minor, w.minor)
    ELSE CmpNat(v.patch, w.patch)

\* Option<Checksum> Ord: None first, then the digest bytes
CmpChecksum(c, d) ==
    IF c = <<>> THEN (IF d = <<>> THEN 0 ELSE -1)
    ELSE IF d = <<>> THEN 1
    ELSE CmpStr(c[1], d[1])

\* Dependency Ord: name, then version
CmpDependency(a, b) ==
    IF CmpStr(a.name, b.name) # 0 THEN CmpStr(a.name, b.name)
    ELSE CmpVersion(a.version, b.version)

RECURSIVE CmpDependencies(_, _)
\* Vec<Dependency> Ord: lexicographic
CmpDependencies(ds, es) ==
    IF ds = <<>> THEN (IF es = <<>> THEN 0 ELSE -1)
    ELSE IF es = <<>> THEN 1
    ELSE IF CmpDependency(Head(ds), Head(es)) # 0 THEN CmpDependency(Head(ds), Head(es))
    ELSE CmpDependencies(Tail(ds), Tail(es))

\* a plausible slip: an ordering on the sort key (name, version) alone
PackageCmpKeyOnly(p, q) ==
    IF CmpStr(p.name, q.name) # 0 THEN CmpStr(p.name, q.name)
    ELSE CmpVersion(p.version, q.version)

\* Package Ord as BTreeSet<&Package> and Vec::sort use it: the derived
\* ordering of cargo_lock::Package, the fields in declaration order name,
\* version, source, checksum, dependencies (replace is None throughout)
PackageCmp(p, q) ==
    IF CmpStr(p.name, q.name) # 0 THEN CmpStr(p.name, q.name)
    ELSE IF CmpVersion(p.version, q.version) # 0 THEN CmpVersion(p.version, q.version)
    ELSE IF p.source # q.source THEN CmpNat(p.source, q.source)
    ELSE IF CmpChecksum(p.checksum, q.checksum) # 0 THEN CmpChecksum(p.checksum, q.checksum)
    ELSE CmpDependencies(p.dependencies, q.dependencies)

(***************************************************************************)
(* resolve_lockfile_packages                                               *)
(***************************************************************************)
\* a plausible slip: the checksum test left out
KeepsEveryPackage(package) == TRUE

\* the test of lines 120-122: a package without a checksum is skipped
HasChecksum(package) == package.checksum # <<>>

RECURSIVE BTreeInsert(_, _)
\* BTreeSet::insert on the set kept as its ascending sequence: an element
\* that compares equal to a present one is not inserted
BTreeInsert(set, p) ==
    IF set = <<>> THEN <<p>>
    ELSE IF PackageCmp(p, Head(set)) = 0 THEN set
    ELSE IF PackageCmp(p, Head(set)) < 0 THEN <<p>> \o set
    ELSE <<Head(set)>> \o BTreeInsert(Tail(set), p)

RECURSIVE InsertPackages(_, _)
\* the inner loop, lines 119-125
InsertPackages(set, doc) ==
    IF doc = <<>> THEN set
    ELSE InsertPackages(
             IF HasChecksum(Head(doc)) THEN BTreeInsert(set, Head(doc)) ELSE set,
             Tail(doc))

RECURSIVE InsertLockfiles(_, _)
\* the outer loop, lines 118-126
InsertLockfiles(set, docs) ==
    IF docs = <<>> THEN set
    ELSE InsertLockfiles(InsertPackages(set, Head(docs)), Tail(docs))

RECURSIVE SortedInsert(_, _)
\* one step of a stable sort: p goes after every element not greater than it
SortedInsert(sorted, p) ==
    IF sorted = <<>> THEN <<p>>
    ELSE IF PackageCmp(p, Head(sorted)) < 0 THEN <<p>> \o sorted
    ELSE <<Head(sorted)>> \o SortedInsert(Tail(sorted), p)

RECURSIVE SortPackages(_, _)
\* Vec::sort (stable), line 134
SortPackages(sorted, rest) ==
    IF rest = <<>> THEN sorted
    ELSE SortPackages(SortedInsert(sorted, Head(rest)), Tail(rest))

\* lines 115-137: fill the set, push its elements in set order, sort
resolve_lockfile_packages(docs) ==
    SortPackages(<<>>, InsertLockfiles(<<>>, docs))

(***************************************************************************)
(* Inputs of the resolver.                                                 *)
(***************************************************************************)
V(major, minor, patch) == [major |-> major, minor |-> minor, patch |-> patch]

Pkg(name, version, source, checksum, dependencies) ==
    [name |-> name, version |-> version, source |-> source,
     checksum |-> checksum, dependencies |-> dependencies]

NameA == <<97>>
NameB == <<98>>
Sum1 == <<<<49, 49>>>>
Sum2 == <<<<50, 50>>>>
NoSum == <<>>
\* source 0 is None, 1 the registry
DepB == [name |-> NameB, version |-> V(2, 0, 0)]

ResolverPackages ==
    { Pkg(NameA, V(2, 0, 0), 1, Sum1, <<>>),
      Pkg(NameA, V(2, 0, 0), 1, Sum1, <<DepB>>),
      Pkg(NameA, V(2, 0, 0), 1, Sum2, <<>>),
      Pkg(NameA, V(2, 0, 0), 0, NoSum, <<>>),
      Pkg(NameA, V(10, 0, 0), 1, Sum1, <<>>),
      Pkg(NameB, V(2, 0, 0), 1, Sum1, <<>>),
      Pkg(NameB, V(2, 0, 0), 0, NoSum, <<DepB>>),
      Pkg(NameB, V(0, 10, 0), 1, Sum2, <<>>) }

RECURSIVE Group(_, _, _)
\* the documents of a flat sequence of records: a new document starts at
\* every position of cuts
Group(flat, cuts, i) ==
    IF i > Len(flat) THEN <<>>
    ELSE LET rest == Group(flat, cuts, i + 1)
         IN IF rest = <<>> \/ (i \in cuts)
            THEN <<<<flat[i]>>>> \o rest
            ELSE <<<<flat[i]>> \o Head(rest)>> \o Tail(rest)

LockfileInputs ==
    UNION { { Group(flat, cuts, 1) : flat \in [1..n -> ResolverPackages],
                                      cuts \in SUBSET (1..(n - 1)) } : n \in 0..MaxTotal }

Modes == {"Normal", "Maxlen", "Multiline", "Justify"}

Idle ==
    /\ files = <<>>
    /\ idx = 1
    /\ effects = <<>>
    /\ error = <<>>
    /\ mode = "Normal"
    /\ output = [ok |-> TRUE, text |-> <<>>]

InitResolve ==
    /\ Idle
    /\ lockfiles \in LockfileInputs
    /\ packages = <<>>
    /\ pc = "loaded"

\* a call of resolve_lockfile_packages on the documents
ResolvePackages ==
    /\ pc = "loaded"
    /\ packages' = resolve_lockfile_packages(lockfiles)
    /\ pc' = "resolved"
    /\ UNCHANGED <<files, idx, effects, error, lockfiles, mode, output>>

NextResolve == ResolvePackages

SpecResolve == InitResolve /\ [][NextResolve]_vars

(***************************************************************************)
(* format_cargo_crates                                                     *)
(***************************************************************************)
\* {:<width$}: the text, then spaces up to the minimum width; never cut
PadLeftAligned(text, width) == text \o Spaces(Max(0, width - Len(text)))

\* {:>width$}: spaces up to the minimum width, then the text; never cut
PadRightAligned(text, width) == Spaces(Max(0, width - Len(text))) \o text

\* " \\\n", the continuation pushed before every line (line 173)
CONTINUATION == <<SPACE, BACKSLASH, NEWLINE>>

RECURSIVE NameMinWidth(_, _)
\* lines 149-153: the longest name of the whole sequence
NameMinWidth(width, rest) ==
    IF rest = <<>> THEN width
    ELSE NameMinWidth(IF Len(Head(rest).name) > width THEN Len(Head(rest).name) ELSE width,
                      Tail(rest))

RECURSIVE VersionMinWidth(_, _)
\* lines 155-158: the longest version text of the whole sequence
VersionMinWidth(width, rest) ==
    IF rest = <<>> THEN width
    ELSE LET version_len == Len(VersionToString(Head(rest).version))
         IN VersionMinWidth(IF version_len > width THEN version_len ELSE width, Tail(rest))

RECURSIVE PackageMaxWidthChecksummed(_, _)
\* a plausible slip: the first pass looks only at the packages it will print
PackageMaxWidthChecksummed(width, rest) ==
    IF rest = <<>> THEN width
    ELSE LET len == Len(Head(rest).name) + Len(VersionToString(Head(rest).version))
         IN PackageMaxWidthChecksummed(
                IF Head(rest).checksum # <<>> /\ len > width THEN len ELSE width, Tail(rest))

RECURSIVE PackageMaxWidth(_, _)
\* lines 161-166: the longest name + version text of the whole sequence
PackageMaxWidth(width, rest) ==
    IF rest = <<>> THEN width
    ELSE LET len == Len(Head(rest).name) + Len(VersionToString(Head(rest).version))
         IN PackageMaxWidth(IF len > width THEN len ELSE width, Tail(rest))

\* a plausible slip: the version right-aligned as in Normal mode
MaxlenLineRightAligned(package, name_width, version_width) ==
    Spaces(INDENT_WIDTH) \o PadLeftAligned(package.name, name_width) \o Spaces(2)
    \o PadRightAligned(VersionToString(package.version), version_width) \o Spaces(2)
    \o package.checksum[1]

\* lines 176-183: "    {:<name_width$}  {:<version_width$}  {}"
MaxlenLine(package, name_width, version_width) ==
    Spaces(INDENT_WIDTH) \o PadLeftAligned(package.name, name_width) \o Spaces(2)
    \o PadLeftAligned(VersionToString(package.version), version_width) \o Spaces(2)
    \o package.checksum[1]

\* lines 184-187: "    {} \\\n    {} \\\n    {}"
MultilineLine(package) ==
    Spaces(INDENT_WIDTH) \o package.name \o CONTINUATION
    \o Spaces(INDENT_WIDTH) \o VersionToString(package.version) \o CONTINUATION
    \o Spaces(INDENT_WIDTH) \o package.checksum[1]

\* a plausible slip: the version left-aligned as in Maxlen mode
NormalLineLeftAligned(package) ==
    Spaces(INDENT_WIDTH) \o PadLeftAligned(package.name, NORMAL_NAME_WIDTH) \o Spaces(2)
    \o PadLeftAligned(VersionToString(package.version), NORMAL_VERSION_WIDTH) \o Spaces(2)
    \o package.checksum[1]

\* lines 188-195: "    {:<name_width$}  {:>version_width$}  {}", widths 28 and 8
NormalLine(package) ==
    Spaces(INDENT_WIDTH) \o PadLeftAligned(package.name, NORMAL_NAME_WIDTH) \o Spaces(2)
    \o PadRightAligned(VersionToString(package.version), NORMAL_VERSION_WIDTH) \o Spaces(2)
    \o package.checksum[1]

\* lines 198-199: a usize subtraction below zero ends the call (a panic, or
\* a wrapped width no allocation can hold)
JustifyOverflows(package, package_max_width) ==
    package_max_width < Len(package.name) + Len(VersionToString(package.version))

\* lines 197-199: package_max_width - name.len() - version_len + JUSTIFIED_BASE_WIDTH
SpaceWidth(package, package_max_width) ==
    package_max_width - Len(package.name) - Len(VersionToString(package.version))
    + JUSTIFIED_BASE_WIDTH

\* lines 201-209: "    {}{:space_width$}{:>version_width$}  {}" with " " in the gap
JustifyLine(package, package_max_width) ==
    LET version == VersionToString(package.version)
    IN Spaces(INDENT_WIDTH) \o package.name
       \o PadLeftAligned(<<SPACE>>, SpaceWidth(package, package_max_width))
       \o PadRightAligned(version, Len(version)) \o Spaces(2)
       \o package.checksum[1]

\* the match of lines 175-211
Line(package, m, name_width, version_width, package_max_width) ==
    CASE m = "Maxlen" -> MaxlenLine(package, name_width, version_width)
      [] m = "Multiline" -> MultilineLine(package)
      [] m = "Normal" -> NormalLine(package)
      [] m = "Justify" -> JustifyLine(package, package_max_width)

\* a plausible slip: the continuation pushed before the checksum is looked at
PushPackageContinuationFirst(out, package, m, name_width, version_width, package_max_width) ==
    IF ~out.ok THEN out
    ELSE IF package.checksum = <<>> THEN [ok |-> TRUE, text |-> out.text \o CONTINUATION]
    ELSE IF m = "Justify" /\ JustifyOverflows(package, package_max_width)
         THEN [ok |-> FALSE, text |-> <<>>]
    ELSE [ok |-> TRUE,
          text |-> out.text \o CONTINUATION
                   \o Line(package, m, name_width, version_width, package_max_width)]

\* the loop body, lines 172-214: a package without a checksum adds nothing
PushPackage(out, package, m, name_width, version_width, package_max_width) ==
    IF ~out.ok THEN out
    ELSE IF package.checksum = <<>> THEN out
    ELSE IF m = "Justify" /\ JustifyOverflows(package, package_max_width)
         THEN [ok |-> FALSE, text |-> <<>>]
    ELSE [ok |-> TRUE,
          text |-> out.text \o CONTINUATION
                   \o Line(package, m, name_width, version_width, package_max_width)]

RECURSIVE PushPackages(_, _, _, _, _, _)
\* the loop of lines 171-215
PushPackages(out, rest, m, name_width, version_width, package_max_width) ==
    IF rest = <<>> THEN out
    ELSE PushPackages(
             PushPackage(out, Head(rest), m, name_width, version_width, package_max_width),
             Tail(rest), m, name_width, version_width, package_max_width)

\* lines 141-218; ok is FALSE when the call did not return
format_cargo_crates(pkgs, m) ==
    LET name_min_width == IF m = "Maxlen" THEN NameMinWidth(0, pkgs) ELSE 0
        version_min_width == IF m = "Maxlen" THEN VersionMinWidth(0, pkgs) ELSE 0
        package_max_width == IF m = "Justify" THEN PackageMaxWidth(0, pkgs) ELSE 0
    IN PushPackages([ok |-> TRUE, text |-> HEADER], pkgs, m,
                    name_min_width, version_min_width, package_max_width)

(***************************************************************************)
(* Inputs of the formatter: any sequence of packages, sorted or not, with  *)
(* or without checksums.                                                   *)
(***************************************************************************)
\* names of 3, 10 and 29 bytes
Name3 == <<102, 111, 111>>
Name10 == [i \in 1..10 |-> 109]
Name29 == [i \in 1..(NORMAL_NAME_WIDTH + 1) |-> 120]

FormatterPackages ==
    { Pkg(n, v, 1, c, <<>>) : n \in {Name3, Name10, Name29},
                              v \in {V(1, 0, 0), V(10, 20, 300)},
                              c \in {NoSum, Sum1} }

PackageInputs == UNION { [1..n -> FormatterPackages] : n \in 0..MaxFmt }

NoOutput == [ok |-> TRUE, text |-> <<>>]

InitFormat ==
    /\ files = <<>>
    /\ idx = 1
    /\ effects = <<>>
    /\ error = <<>>
    /\ lockfiles = <<>>
    /\ packages \in PackageInputs
    /\ mode \in Modes
    /\ output = NoOutput
    /\ pc = "resolved"

\* a call of format_cargo_crates on the packages
FormatCrates ==
    /\ pc = "resolved"
    /\ output' = format_cargo_crates(packages, mode)
    /\ pc' = "formatted"
    /\ UNCHANGED <<files, idx, effects, error, lockfiles, packages, mode>>

NextFormat == FormatCrates

SpecFormat == InitFormat /\ [][NextFormat]_vars

(***************************************************************************)
(* read_packages_from_lockfiles and the loaders it calls                   *)
(***************************************************************************)
RECURSIVE SplitOn(_, _)
\* str::split(sep) collected: the pieces between the separators, empty
\* pieces included, one piece for a text without the separator
SplitOn(text, sep) ==
    IF text = <<>> THEN <<<<>>>>
    ELSE LET rest == SplitOn(Tail(text), sep)
         IN IF Head(text) = sep
            THEN <<<<>>>> \o rest
            ELSE <<<<Head(text)>> \o Head(rest)>> \o Tail(rest)

\* str::strip_prefix: Some(the rest) when the text starts with the prefix
StripPrefix(text, prefix) ==
    IF Len(text) >= Len(prefix) /\ SubSeq(text, 1, Len(prefix)) = prefix
    THEN <<SubSeq(text, Len(prefix) + 1, Len(text))>>
    ELSE <<>>

\* a plausible slip: exactly one separator demanded
HasExactlyTwoParts(parts) == Len(parts) = 2

\* the test of line 100
HasNameAndVersion(parts) == Len(parts) >= 2

Err(kind, detail) == [kind |-> kind, detail |-> detail]

Effect(kind, index, name, version) ==
    [kind |-> kind, index |-> index, name |-> name, version |-> version]

\* documents a loader can return
ReaderDocuments ==
    { <<Pkg(NameA, V(2, 0, 0), 1, Sum1, <<>>)>>,
      <<Pkg(NameB, V(2, 0, 0), 0, NoSum, <<>>), Pkg(NameA, V(2, 0, 0), 1, Sum1, <<>>)>> }

\* a plausible slip: a source that fails is skipped and the loop goes on
SkipSource(err, effs) ==
    /\ idx' = idx + 1
    /\ effects' = effs
    /\ UNCHANGED <<files, error, lockfiles, packages, mode, output, pc>>

\* the ? of lines 229, 231 and 233: the error is returned at once
ReturnErr(err, effs) ==
    /\ pc' = "failed"
    /\ error' = <<err>>
    /\ effects' = effs
    /\ UNCHANGED <<files, idx, lockfiles, packages, mode, output>>

\* line 236, and the next turn of the loop
PushLockfile(lockfile, effs) ==
    /\ lockfiles' = Append(lockfiles, lockfile)
    /\ idx' = idx + 1
    /\ effects' = effs
    /\ UNCHANGED <<files, error, packages, mode, output, pc>>

\* lines 228-229 with lockfile_from_stdin (90-95): the read can fail with an
\* I/O error, the parse with a cargo_lock error
LoadStdin ==
    /\ pc = "reading"
    /\ idx <= Len(files)
    /\ files[idx] = <<DASH>>
    /\ LET effs == Append(effects, Effect("stdin", idx, <<>>, <<>>))
       IN \/ \E kind \in {"Tar", "CargoLock"} : ReturnErr(Err(kind, <<>>), effs)
          \/ \E lockfile \in ReaderDocuments : PushLockfile(lockfile, effs)

\* lines 230-231 with lockfile_from_crates_io (97-108): without a second
\* part nothing is downloaded and Error::Spec carries the specifier
LoadCrate ==
    /\ pc = "reading"
    /\ idx <= Len(files)
    /\ files[idx] # <<DASH>>
    /\ StripPrefix(files[idx], CRATE_PREFIX) # <<>>
    /\ LET crate_spec == StripPrefix(files[idx], CRATE_PREFIX)[1]
           parts == SplitOn(crate_spec, AT)
       IN IF HasNameAndVersion(parts)
          THEN LET effs == Append(effects, Effect("download", idx, parts[1], parts[2]))
               IN \/ \E kind \in {"Download", "Tar", "MissingLockfile", "CargoLock"} :
                         ReturnErr(Err(kind, <<>>), effs)
                  \/ \E lockfile \in ReaderDocuments : PushLockfile(lockfile, effs)
          ELSE ReturnErr(Err("Spec", crate_spec), effects)

\* lines 232-233 with lockfile_from_path (79-81)
LoadPath ==
    /\ pc = "reading"
    /\ idx <= Len(files)
    /\ files[idx] # <<DASH>>
    /\ StripPrefix(files[idx], CRATE_PREFIX) = <<>>
    /\ LET effs == Append(effects, Effect("path", idx, files[idx], <<>>))
       IN \/ ReturnErr(Err("CargoLock", <<>>), effs)
          \/ \E lockfile \in ReaderDocuments : PushLockfile(lockfile, effs)

\* line 239: after the last source the resolver runs on what was loaded
ReadResolve ==
    /\ pc = "reading"
    /\ idx > Len(files)
    /\ packages' = resolve_lockfile_packages(lockfiles)
    /\ effects' = Append(effects, Effect("resolve", idx, <<>>, <<>>))
    /\ pc' = "returned"
    /\ UNCHANGED <<files, idx, error, lockfiles, mode, output>>

(***************************************************************************)
(* Inputs of the reader.                                                   *)
(***************************************************************************)
\* "a@1", "a", "", "@", "a@1@2", "@1"
CrateSpecs ==
    { <<97, AT, 49>>, <<97>>, <<>>, <<AT>>, <<97, AT, 49, AT, 50>>, <<AT, 49>> }

\* "-", the path "p", and "crate:" before each specifier
Sources == { <<DASH>>, <<112>> } \cup { CRATE_PREFIX \o x : x \in CrateSpecs }

FileInputs == UNION { [1..n -> Sources] : n \in 0..MaxFiles }

InitRead ==
    /\ files \in FileInputs
    /\ idx = 1
    /\ effects = <<>>
    /\ error = <<>>
    /\ lockfiles = <<>>
    /\ packages = <<>>
    /\ mode = "Normal"
    /\ output = NoOutput
    /\ pc = "reading"

NextRead == LoadStdin \/ LoadCrate \/ LoadPath \/ ReadResolve

SpecRead == InitRead /\ [][NextRead]_vars

(***************************************************************************)
(* Vocabulary of the properties, stated apart from the operators above.    *)
(***************************************************************************)
Range(seq) == { seq[i] : i \in 1..Len(seq) }

StrLeq(s, t) ==
    \/ s = t
    \/ \E k \in 1..Len(t) :
          /\ k - 1 <= Len(s)
          /\ SubSeq(s, 1, k - 1) = SubSeq(t, 1, k - 1)
          /\ (k = Len(s) + 1 \/ s[k] < t[k])

VersionLeq(v, w) ==
    \/ v.major < w.major
    \/ v.major = w.major /\ v.minor < w.minor
    \/ v.major = w.major /\ v.minor = w.minor /\ v.patch <= w.patch

KeyLeq(p, q) ==
    \/ p.name # q.name /\ StrLeq(p.name, q.name)
    \/ p.name = q.name /\ VersionLeq(p.version, q.version)

Triple(p) == <<p.name, p.version, p.checksum>>

AllRecords(docs) == UNION { Range(docs[i]) : i \in 1..Len(docs) }

Permute(docs, f) == [i \in 1..Len(docs) |-> docs[f[i]]]

Checksummed(pkgs) == SelectSeq(pkgs, LAMBDA p : p.checksum # <<>>)

RECURSIVE TextLines(_)
\* the lines of a text, cut at every newline
TextLines(text) ==
    IF \A i \in 1..Len(text) : text[i] # NEWLINE THEN <<text>>
    ELSE LET n == CHOOSE i \in 1..Len(text) :
                      text[i] = NEWLINE /\ \A j \in 1..(i - 1) : text[j] # NEWLINE
         IN <<SubSeq(text, 1, n - 1)>> \o TextLines(SubSeq(text, n + 1, Len(text)))

BodyLines(text) == Tail(TextLines(text))

TokenEnd(line, i) ==
    CHOOSE e \in i..Len(line) :
        /\ \A k \in i..e : line[k] # SPACE
        /\ (e = Len(line) \/ line[e + 1] = SPACE)

RECURSIVE TokensFrom(_, _)
\* the runs of non-space bytes of a line from column i on, each with the
\* column (from 1) it starts at
TokensFrom(line, i) ==
    IF i > Len(line) THEN <<>>
    ELSE IF line[i] = SPACE THEN TokensFrom(line, i + 1)
    ELSE <<[col |-> i, text |-> SubSeq(line, i, TokenEnd(line, i))]>>
         \o TokensFrom(line, TokenEnd(line, i) + 1)

\* the tokens of a line without the closing continuation mark
Fields(line) ==
    LET tokens == TokensFrom(line, 1)
    IN IF tokens # <<>> /\ tokens[Len(tokens)].text = <<BACKSLASH>>
       THEN SubSeq(tokens, 1, Len(tokens) - 1)
       ELSE tokens

FieldTexts(line) == [i \in 1..Len(Fields(line)) |-> Fields(line)[i].text]

LongestOf(lengths) == CHOOSE m \in lengths : \A l \in lengths : l <= m

LongestName(pkgs) == LongestOf({ Len(pkgs[i].name) : i \in 1..Len(pkgs) })

LongestVersion(pkgs) ==
    LongestOf({ Len(VersionToString(pkgs[i].version)) : i \in 1..Len(pkgs) })

Combined(p) == Len(p.name) + Len(VersionToString(p.version))

LongestCombined(pkgs) == LongestOf({ Combined(pkgs[i]) : i \in 1..Len(pkgs) })

HasAt(x) == \E j \in 1..Len(x) : x[j] = AT

FirstAt(x) == CHOOSE j \in 1..Len(x) : x[j] = AT /\ \A k \in 1..(j - 1) : x[k] # AT

BeforeFirstAt(x) == SubSeq(x, 1, FirstAt(x) - 1)

AfterFirstAt(x) == SubSeq(x, FirstAt(x) + 1, Len(x))

BetweenFirstAndSecondAt(x) ==
    IF HasAt(AfterFirstAt(x)) THEN BeforeFirstAt(AfterFirstAt(x)) ELSE AfterFirstAt(x)

IsCrateSource(src) ==
    Len(src) >= Len(CRATE_PREFIX) /\ SubSeq(src, 1, Len(CRATE_PREFIX)) = CRATE_PREFIX

CrateSpecOf(src) == SubSeq(src, Len(CRATE_PREFIX) + 1, Len(src))

\* source i has been loaded, or loading it has failed
Processed(i) == i < idx \/ (pc = "failed" /\ i = idx)

(***************************************************************************)
(* The resolver (SpecResolve).                                             *)
(***************************************************************************)
\* C1: the resolved sequence holds no two records with the same
\* (name, version, checksum), whatever their source and dependency list.
C1_NoDuplicateTriple ==
    pc = "resolved" =>
        \A i, j \in 1..Len(packages) :
            i # j => Triple(packages[i]) # Triple(packages[j])

\* C2: resolving any permutation of the documents, or the documents with one
\* of them repeated, gives the same sequence element for element.
C2_OrderAndRepetitionIndependent ==
    pc = "resolved" =>
        /\ \A f \in Permutations(1..Len(lockfiles)) :
               resolve_lockfile_packages(Permute(lockfiles, f)) = packages
        /\ \A i \in 1..Len(lockfiles) :
               /\ resolve_lockfile_packages(Append(lockfiles, lockfiles[i])) = packages
               /\ resolve_lockfile_packages(<<lockfiles[i]>> \o lockfiles) = packages

\* two documents whose records share name and version and differ in checksum
C2_Witness ==
    /\ pc = "resolved"
    /\ Len(lockfiles) >= 2
    /\ lockfiles[1][1].name = lockfiles[2][1].name
    /\ lockfiles[1][1].version = lockfiles[2][1].version
    /\ lockfiles[1][1].checksum # <<>>
    /\ lockfiles[2][1].checksum # <<>>
    /\ lockfiles[1][1].checksum # lockfiles[2][1].checksum
    /\ Len(packages) >= 2

\* C3: every adjacent pair of the resolved sequence is in (name, version)
\* order, name first, version (as numbers) second.
C3_SortedByNameVersion ==
    pc = "resolved" =>
        \A i \in 1..(Len(packages) - 1) : KeyLeq(packages[i], packages[i + 1])

\* versions 10.0.0 and 2.0.0 of one name, given in descending order
C3_Witness ==
    /\ pc = "resolved"
    /\ Len(packages) >= 2
    /\ packages[1].name = packages[2].name
    /\ packages[1].version = V(2, 0, 0)
    /\ packages[2].version = V(10, 0, 0)
    /\ lockfiles[1][1] = packages[2]

\* C4: the records of the result are exactly the records of the documents
\* that carry a checksum.
C4_ExactlyTheChecksummed ==
    pc = "resolved" =>
        Range(packages) = { p \in AllRecords(lockfiles) : p.checksum # <<>> }

\* a record without checksum in two documents, next to checksummed records
C4_Witness ==
    /\ pc = "resolved"
    /\ Len(lockfiles) >= 2
    /\ \E p \in Range(lockfiles[1]) \cap Range(lockfiles[2]) : p.checksum = <<>>
    /\ packages # <<>>

(***************************************************************************)
(* The formatter (SpecFormat).                                             *)
(***************************************************************************)
OneLinePerPackage ==
    LET lines == BodyLines(output.text)
        printed == Checksummed(packages)
    IN /\ Len(lines) = Len(printed)
       /\ \A k \in 1..Len(printed) :
              FieldTexts(lines[k]) = <<printed[k].name,
                                       VersionToString(printed[k].version),
                                       printed[k].checksum[1]>>

ThreeLinesPerPackage ==
    LET lines == BodyLines(output.text)
        printed == Checksummed(packages)
    IN /\ Len(lines) = 3 * Len(printed)
       /\ \A k \in 1..Len(printed) :
              /\ FieldTexts(lines[3 * k - 2]) = <<printed[k].name>>
              /\ FieldTexts(lines[3 * k - 1]) = <<VersionToString(printed[k].version)>>
              /\ FieldTexts(lines[3 * k]) = <<printed[k].checksum[1]>>

HeaderFirst ==
    /\ output.ok
    /\ FieldTexts(TextLines(output.text)[1]) = <<HEADER>>
    /\ (packages = <<>> => output.text = HEADER)

\* C5 as stated: in every mode the output of an empty sequence is the header
\* alone, and the lines after the header are one per checksummed package, in
\* sequence order.
C5_OneLinePerPackageInEveryMode ==
    pc = "formatted" => HeaderFirst /\ OneLinePerPackage

\* C5 amended: the header alone for an empty sequence; one line per
\* checksummed package in Normal, Maxlen and Justify mode; three lines (name,
\* version, checksum) per checksummed package in Multiline mode; in sequence
\* order and none for a package without a checksum.
C5_LinesPerPackageByMode ==
    pc = "formatted" =>
        /\ HeaderFirst
        /\ (mode # "Multiline" => OneLinePerPackage)
        /\ (mode = "Multiline" => ThreeLinesPerPackage)

\* Multiline mode, a checksummed package after one without a checksum
C5_Witness ==
    /\ pc = "formatted"
    /\ mode = "Multiline"
    /\ Len(packages) = 2
    /\ packages[1].checksum = <<>>
    /\ packages[2].checksum # <<>>

\* C6: in Justify mode the call returns (the subtraction stays at or above
\* zero), the gap between name and version is the longest name + version of
\* the whole sequence minus this line's name + version plus 5, it is at least
\* 5, name + gap + version is the same on every line, and so is the column
\* the checksum starts at.
C6_JustifyGap ==
    pc = "formatted" /\ mode = "Justify" =>
        /\ output.ok
        /\ LET lines == BodyLines(output.text)
               printed == Checksummed(packages)
               Gap(k) == Fields(lines[k])[2].col
                         - (Fields(lines[k])[1].col + Len(printed[k].name))
           IN /\ Len(lines) = Len(printed)
              /\ \A k \in 1..Len(printed) :
                     /\ FieldTexts(lines[k]) = <<printed[k].name,
                                                 VersionToString(printed[k].version),
                                                 printed[k].checksum[1]>>
                     /\ LongestCombined(packages) - Combined(printed[k]) >= 0
                     /\ Gap(k) = LongestCombined(packages) - Combined(printed[k])
                                 + JUSTIFIED_BASE_WIDTH
                     /\ Gap(k) >= JUSTIFIED_BASE_WIDTH
              /\ \A k, l \in 1..Len(printed) :
                     /\ Len(printed[k].name) + Gap(k)
                            + Len(VersionToString(printed[k].version))
                        = Len(printed[l].name) + Gap(l)
                            + Len(VersionToString(printed[l].version))
                     /\ Fields(lines[k])[3].col = Fields(lines[l])[3].col

\* Justify mode, the longest name + version belongs to a package without a
\* checksum
C6_Witness ==
    /\ pc = "formatted"
    /\ mode = "Justify"
    /\ Len(packages) = 2
    /\ packages[1].checksum = <<>>
    /\ packages[2].checksum # <<>>
    /\ Combined(packages[1]) > Combined(packages[2])

\* C7: in Maxlen mode every line has the name at column 5, the version at
\* the column after a name field as wide as the longest name of the whole
\* sequence and two spaces, and the checksum at the column after a version
\* field as wide as the longest version text and two spaces.
C7_MaxlenColumns ==
    pc = "formatted" /\ mode = "Maxlen" =>
        /\ output.ok
        /\ LET lines == BodyLines(output.text)
               printed == Checksummed(packages)
           IN /\ Len(lines) = Len(printed)
              /\ \A k \in 1..Len(printed) :
                     Fields(lines[k]) =
                         << [col |-> INDENT_WIDTH + 1, text |-> printed[k].name],
                            [col |-> INDENT_WIDTH + LongestName(packages) + 2 + 1,
                             text |-> VersionToString(printed[k].version)],
                            [col |-> INDENT_WIDTH + LongestName(packages) + 2
                                     + LongestVersion(packages) + 2 + 1,
                             text |-> printed[k].checksum[1]] >>

\* Maxlen mode, two printed packages whose names and versions differ in length
C7_Witness ==
    /\ pc = "formatted"
    /\ mode = "Maxlen"
    /\ Len(packages) = 2
    /\ packages[1].checksum # <<>>
    /\ packages[2].checksum # <<>>
    /\ Len(packages[1].name) < Len(packages[2].name)
    /\ Len(VersionToString(packages[1].version))
           > Len(VersionToString(packages[2].version))

\* C8 as stated: in Normal mode the name field is 28 wide and the version
\* field 8 wide whatever the lengths, so the version ends at column 42 and
\* the checksum starts at column 45 on every line.
C8_NormalFixedColumns ==
    pc = "formatted" /\ mode = "Normal" =>
        /\ output.ok
        /\ LET lines == BodyLines(output.text)
               printed == Checksummed(packages)
           IN /\ Len(lines) = Len(printed)
              /\ \A k \in 1..Len(printed) :
                     LET version == VersionToString(printed[k].version)
                         version_end == INDENT_WIDTH + NORMAL_NAME_WIDTH + 2
                                        + NORMAL_VERSION_WIDTH
                     IN Fields(lines[k]) =
                            << [col |-> INDENT_WIDTH + 1, text |-> printed[k].name],
                               [col |-> version_end - Len(version) + 1, text |-> version],
                               [col |-> version_end + 2 + 1,
                                text |-> printed[k].checksum[1]] >>

\* C8 amended: 28 and 8 are minimum widths; a longer name or version is
\* written in full and widens its field, so the version ends at column
\* 4 + max(28, len(name)) + 2 + max(8, len(version)) and the checksum starts
\* three columns later: at column 45 on every line whose name has at most 28
\* and whose version has at most 8 bytes.
C8_NormalMinimumWidths ==
    pc = "formatted" /\ mode = "Normal" =>
        /\ output.ok
        /\ LET lines == BodyLines(output.text)
               printed == Checksummed(packages)
           IN /\ Len(lines) = Len(printed)
              /\ \A k \in 1..Len(printed) :
                     LET version == VersionToString(printed[k].version)
                         version_end == INDENT_WIDTH
                                        + Max(NORMAL_NAME_WIDTH, Len(printed[k].name)) + 2
                                        + Max(NORMAL_VERSION_WIDTH, Len(version))
                     IN Fields(lines[k]) =
                            << [col |-> INDENT_WIDTH + 1, text |-> printed[k].name],
                               [col |-> version_end - Len(version) + 1, text |-> version],
                               [col |-> version_end + 2 + 1,
                                text |-> printed[k].checksum[1]] >>

\* Normal mode, a printed name of 3 bytes and a printed name of 29 bytes
C8_Witness ==
    /\ pc = "formatted"
    /\ mode = "Normal"
    /\ Len(packages) = 2
    /\ packages[1].checksum # <<>>
    /\ packages[2].checksum # <<>>
    /\ Len(packages[1].name) < NORMAL_NAME_WIDTH
    /\ Len(packages[2].name) > NORMAL_NAME_WIDTH
    /\ Len(VersionToString(packages[1].version)) < NORMAL_VERSION_WIDTH

(***************************************************************************)
(* The reader (SpecRead).                                                  *)
(***************************************************************************)
\* C9: the sources are loaded one at a time in list order; when loading
\* source i fails the call returns that error, nothing after i is read,
\* fetched or parsed, the resolver has not run and no packages are returned;
\* packages are returned only when every source was loaded.
C9_FailFast ==
    /\ \A j, k \in 1..Len(effects) : j < k => effects[j].index < effects[k].index
    /\ pc = "reading" => error = <<>> /\ Len(lockfiles) = idx - 1 /\ packages = <<>>
    /\ pc = "failed" =>
           /\ idx <= Len(files)
           /\ error # <<>>
           /\ packages = <<>>
           /\ Len(lockfiles) = idx - 1
           /\ \A k \in 1..Len(effects) :
                  effects[k].kind # "resolve" /\ effects[k].index <= idx
    /\ pc = "returned" =>
           /\ error = <<>>
           /\ Len(lockfiles) = Len(files)
           /\ \A i \in 1..Len(files) :
                  IsCrateSource(files[i]) => HasAt(CrateSpecOf(files[i]))

\* the first of two sources fails after it was read
C9_Witness ==
    /\ pc = "failed"
    /\ Len(files) = 2
    /\ idx = 1
    /\ effects # <<>>

\* C10: loading "crate:X" fails with the malformed-specifier error carrying X
\* exactly when X has no '@', and then nothing is downloaded; with an '@' the
\* download is asked for the text before the first '@' as name and the text
\* between the first and the second '@' (or the end) as version, and the
\* malformed-specifier error is not produced.
C10_SpecErrorIffNoSeparator ==
    /\ \A i \in 1..Len(files) :
           Processed(i) /\ IsCrateSource(files[i]) =>
               LET x == CrateSpecOf(files[i])
               IN IF HasAt(x)
                  THEN /\ \E k \in 1..Len(effects) :
                              effects[k] = Effect("download", i, BeforeFirstAt(x),
                                                  BetweenFirstAndSecondAt(x))
                       /\ ~(pc = "failed" /\ idx = i /\ error[1].kind = "Spec")
                  ELSE /\ pc = "failed"
                       /\ idx = i
                       /\ error = <<Err("Spec", x)>>
                       /\ \A k \in 1..Len(effects) : effects[k].index # i
    /\ pc = "failed" /\ error[1].kind = "Spec" =>
           IsCrateSource(files[idx]) /\ ~HasAt(CrateSpecOf(files[idx]))

\* "crate:a@1@2" was downloaded, then a source without '@' was refused
C10_Witness ==
    /\ pc = "failed"
    /\ idx = 2
    /\ files[1] = CRATE_PREFIX \o <<97, AT, 49, AT, 50>>
    /\ error[1].kind = "Spec"
    /\ Len(effects) = 1

====
